---- MODULE Spec2Model ----
(***************************************************************************)
(* The tsm1 in-memory cache (tsdb/engine/tsm1/cache.go): entry.add, and    *)
(* Cache.Write, WriteMulti, Snapshot, ClearSnapshot, Size, Keys, Values,   *)
(* called by NumProcs goroutines on one live Cache c.                      *)
(*                                                                         *)
(* c.mu is the variable mu.  A handler that holds the write lock for its   *)
(* whole body is split only where an unlocked reader can look in between   *)
(* (Keys takes no lock): WriteBegin/WriteMultiBegin take the lock and do   *)
(* the capacity check, WriteApply is one c.write call, WriteCommit stores  *)
(* c.size and unlocks.  A section under RLock is one step; Values, when it *)
(* saw needSort, goes on with ValuesLock (c.mu.Lock()) and ValuesResort    *)
(* (look up, sort, unlock).                                                *)
(*                                                                         *)
(* A snapshot is a *Cache; the model numbers them 1, 2, ... in the order   *)
(* Snapshot returns them and keeps the fields of those c.flushingCaches    *)
(* still refers to.  0 stands for a *Cache that Snapshot never returned.   *)
(*                                                                         *)
(* uint64 counters are kept modulo 2^WordBits: the width is scaled down    *)
(* from 64 to keep the arithmetic within 32-bit integers; every magnitude  *)
(* of the model stays far below half the modulus, as it does for 2^64 in   *)
(* the program.                                                            *)
(*                                                                         *)
(* Where a line of cache.go names something that does not exist, the       *)
(* model reads it as the name next to it that types: line 132 appends      *)
(* snapshot to c.flushingCaches, line 198 slices e.values to its own       *)
(* length, the function literal of lines 204-216 is called, and entry has  *)
(* the size field line 36 adds to.                                         *)
(***************************************************************************)
EXTENDS Integers, Sequences, FiniteSets, TLC


\* ------------------------------------------------------------- bounds
NumProcs == 2
MaxTime == 1
MaxVal == 2
MaxBatch == 2
MaxMultiBatch == 1
MaxSizeBytes == 2
MaxSnapshots == 2
WordBits == 6

\* ---------------------------------------------------------- constants
\* math.MinInt64, the initial value of min in entry.add; the smallest
\* timestamp of the model stands for it.
MinInt64 == 0

Uint64Mod == 2 ^ WordBits

Procs == 1 .. NumProcs

\* Keys are strings; a string is its sequence of bytes: "ab" and "b".
KeyAB == <<1, 2>>
KeyB == <<2>>
AllKeys == {KeyAB, KeyB}

TimeStamps == MinInt64 .. MaxTime

\* A Value: its UnixNano() and its payload, v.
Sample == [t : TimeStamps, v : 1 .. MaxVal]

\* Value.Size(): the byte size of one value (payload dependent).
ValueSize(s) == s.v

RECURSIVE ValuesSize(_)
\* Values.Size(): the sum of the sizes of the values.
ValuesSize(vals) ==
    IF vals = <<>> THEN 0 ELSE ValueSize(Head(vals)) + ValuesSize(Tail(vals))

\* The non-empty []Value arguments of at most n values.
BatchesUpTo(n) == UNION {[1 .. i -> Sample] : i \in 1 .. n}

\* The []Value arguments of Write.
Batches == BatchesUpTo(MaxBatch)

\* The map[string][]Value arguments of WriteMulti.
MultiBatches ==
    UNION {[ks -> BatchesUpTo(MaxMultiBatch)] : ks \in SUBSET AllKeys}

VARIABLES
    store,              \* c.store: key -> entry
    snaps,              \* the snapshot Caches c.flushingCaches refers to:
                        \* number -> [store, size]
    nsnap,              \* how many snapshots Snapshot has returned
    flushingCaches,     \* c.flushingCaches, as snapshot numbers
    size,               \* c.size
    flushingCachesSize, \* c.flushingCachesSize
    mu,                 \* c.mu: 0 free, p when p holds the write lock
    pc,                 \* pc[p]: where goroutine p is
    wbatch,             \* the key -> values map the lock holder is writing
    wleft,              \* the keys of wbatch not written yet
    wbase,              \* the keys of c.store when the lock holder locked
    wnewSize,           \* newSize of the lock holder
    vkey,               \* vkey[p]: the key of p's Values call
    klive,              \* klive[p]: the map p's Keys call ranges over is
                        \* still c.store
    kdom,               \* kdom[p]: the keys of that map, once retired
    kstart,             \* kstart[p]: the keys it held when the range began
    ka,                 \* ka[p]: the slice a of p's Keys call
    ret,                \* what the last step returned to its caller (NoRet:
                        \* the step was not a return)
    written             \* history: written[k][t], payload last accepted for
                        \* key k at time t since the live map was made (0: none)

cacheVars == <<store, snaps, nsnap, flushingCaches, size, flushingCachesSize>>

writerVars == <<wbatch, wleft, wbase, wnewSize>>

keysVars == <<klive, kdom, kstart, ka>>

vars == <<cacheVars, mu, pc, writerVars, vkey, keysVars, ret, written>>

\* ------------------------------------------------------------ helpers
EmptyMap == <<>>

\* c.maxSize, as given to NewCache.
maxSize == MaxSizeBytes

NoWrites == [k \in AllKeys |-> [t \in TimeStamps |-> 0]]

Ret(op, err, n, vals, keys) ==
    [op |-> op, err |-> err, n |-> n, vals |-> vals, keys |-> keys]

NoRet == Ret("", FALSE, 0, <<>>, <<>>)

SeqToSet(s) == {s[i] : i \in 1 .. Len(s)}

\* newEntry()
newEntry == [values |-> <<>>, needSort |-> FALSE, size |-> 0]

\* ------------------------------------------------------------- entry
\* entry.add, lines 28-34: with values already stored, the first new
\* timestamp is compared with that of e.values[0].
FirstOutOfOrder(e, values) ==
    /\ Len(e.values) # 0
    /\ e.values[1].t >= values[1].t

\* entry.add, lines 43-50: the scan of the new values; min stays
\* math.MinInt64 for the whole scan.
BatchOutOfOrder(values) ==
    \E i \in 1 .. Len(values) : MinInt64 >= values[i].t

\* entry.add
add(e, values) ==
    LET first == IF FirstOutOfOrder(e, values) THEN TRUE ELSE e.needSort
    IN  [values   |-> e.values \o values,
         size     |-> (e.size + ValuesSize(values)) % Uint64Mod,
         needSort |-> IF Len(values) = 1
                      THEN first
                      ELSE first \/ BatchOutOfOrder(values)]

\* Cache.write on the map object m.
write(m, key, values) ==
    LET e == IF key \in DOMAIN m THEN m[key] ELSE newEntry
    IN  [k \in DOMAIN m \cup {key} |-> IF k = key THEN add(e, values) ELSE m[k]]

\* ------------------------------------------------- Values.Deduplicate
\* The value stored last for timestamp t.
LastAt(vals, t) ==
    LET I == {i \in 1 .. Len(vals) : vals[i].t = t}
    IN  vals[CHOOSE i \in I : \A j \in I : j <= i]

RECURSIVE SortTimes(_)
\* The timestamps of T in ascending order.
SortTimes(T) ==
    IF T = {} THEN <<>>
    ELSE LET m == CHOOSE x \in T : \A y \in T : x <= y
         IN  <<m>> \o SortTimes(T \ {m})

\* Values.Deduplicate: one value per timestamp, the one stored last,
\* sorted by timestamp.
Deduplicate(vals) ==
    LET ts == SortTimes({vals[i].t : i \in 1 .. Len(vals)})
    IN  [i \in 1 .. Len(ts) |-> LastAt(vals, ts[i])]

\* ------------------------------------------------------ sort.Strings
RECURSIVE LexLess(_, _)
\* a < b for strings (byte sequences).
LexLess(a, b) ==
    IF b = <<>> THEN FALSE
    ELSE IF a = <<>> THEN TRUE
    ELSE IF Head(a) # Head(b) THEN Head(a) < Head(b)
    ELSE LexLess(Tail(a), Tail(b))

RECURSIVE Insert(_, _)
\* x put before the first element of the sorted s that is not below it.
Insert(x, s) ==
    IF s = <<>> THEN <<x>>
    ELSE IF LexLess(Head(s), x) THEN <<Head(s)>> \o Insert(x, Tail(s))
    ELSE <<x>> \o s

RECURSIVE SortStrings(_)
\* sort.Strings(a)
SortStrings(a) ==
    IF a = <<>> THEN <<>> ELSE Insert(Head(a), SortStrings(Tail(a)))

\* --------------------------------------------------------------- Init
\* NewCache(maxSize), and every goroutine idle.
Init ==
    /\ store = EmptyMap
    /\ snaps = EmptyMap
    /\ nsnap = 0
    /\ flushingCaches = <<>>
    /\ size = 0
    /\ flushingCachesSize = 0
    /\ mu = 0
    /\ pc = [p \in Procs |-> "idle"]
    /\ wbatch = EmptyMap
    /\ wleft = {}
    /\ wbase = {}
    /\ wnewSize = 0
    /\ vkey = [p \in Procs |-> KeyB]
    /\ klive = [p \in Procs |-> FALSE]
    /\ kdom = [p \in Procs |-> {}]
    /\ kstart = [p \in Procs |-> {}]
    /\ ka = [p \in Procs |-> <<>>]
    /\ ret = NoRet
    /\ written = NoWrites

\* ------------------------------------------------- Write, WriteMulti
\* "Enough room in the cache?": the test of lines 84 and 107.
Exceeded(newSize) ==
    (newSize + flushingCachesSize) % Uint64Mod > maxSize

\* A rejection that has already stored newSize in c.size.
RejectAfterCommit(op, newSize) ==
    /\ ret' = Ret(op, TRUE, 0, <<>>, <<>>)
    /\ size' = newSize
    /\ UNCHANGED <<store, snaps, nsnap, flushingCaches, flushingCachesSize>>

\* Lines 85 / 108: return newSize, ErrCacheMemoryExceeded; nothing of the
\* cache was assigned.
Reject(op, newSize) ==
    /\ ret' = Ret(op, TRUE, 0, <<>>, <<>>)
    /\ UNCHANGED cacheVars

\* Lines 79-86 / 97-109: take the lock, size the call, and either return
\* ErrCacheMemoryExceeded (unlocking) or go on to write, lock held.
Admit(p, op, batch, totalSz) ==
    LET newSize == (size + totalSz) % Uint64Mod
    IN  /\ pc[p] = "idle"
        /\ mu = 0
        /\ IF Exceeded(newSize)
           THEN /\ Reject(op, newSize)
                /\ UNCHANGED <<mu, pc, writerVars>>
           ELSE /\ mu' = p
                /\ pc' = [pc EXCEPT ![p] = op]
                /\ wbatch' = batch
                /\ wleft' = DOMAIN batch
                /\ wbase' = DOMAIN store
                /\ wnewSize' = newSize
                /\ ret' = NoRet
                /\ UNCHANGED cacheVars
        /\ UNCHANGED <<vkey, keysVars, written>>

\* Cache.Write, up to the capacity check.
WriteBegin(p, key, values) ==
    Admit(p, "Write", [k \in {key} |-> values], ValuesSize(values))

RECURSIVE TotalSize(_)
\* Lines 100-103: totalSz over the map.
TotalSize(batch) ==
    IF DOMAIN batch = {} THEN 0
    ELSE LET k == CHOOSE x \in DOMAIN batch : TRUE
         IN  ValuesSize(batch[k])
               + TotalSize([x \in DOMAIN batch \ {k} |-> batch[x]])

\* Cache.WriteMulti, up to the capacity check.
WriteMultiBegin(p, batch) ==
    Admit(p, "WriteMulti", batch, TotalSize(batch))

\* The history of accepted samples after values are written for key.
Record(w, key, values) ==
    [w EXCEPT ![key] =
        [t \in TimeStamps |->
            IF \E i \in 1 .. Len(values) : values[i].t = t
            THEN LastAt(values, t).v ELSE @[t]]]

\* Lines 88 / 111-113: one c.write(k, v) by the lock holder (Go ranges
\* over the map in any order).
WriteApply(p) ==
    /\ pc[p] \in {"Write", "WriteMulti"}
    /\ mu = p
    /\ \E k \in wleft :
          /\ store' = write(store, k, wbatch[k])
          /\ written' = Record(written, k, wbatch[k])
          /\ wleft' = wleft \ {k}
    /\ ret' = NoRet
    /\ UNCHANGED <<snaps, nsnap, flushingCaches, size, flushingCachesSize, mu,
                   pc, wbatch, wbase, wnewSize, vkey, keysVars>>

\* Lines 89-91 / 114-116: c.size = newSize, unlock, return.
WriteCommit(p) ==
    /\ pc[p] \in {"Write", "WriteMulti"}
    /\ mu = p
    /\ wleft = {}
    /\ size' = wnewSize
    /\ mu' = 0
    /\ pc' = [pc EXCEPT ![p] = "idle"]
    /\ ret' = Ret(pc[p], FALSE, 0, <<>>, <<>>)
    /\ wbatch' = EmptyMap
    /\ wbase' = {}
    /\ wnewSize' = 0
    /\ UNCHANGED <<store, snaps, nsnap, flushingCaches, flushingCachesSize,
                   wleft, vkey, keysVars, written>>

\* ----------------------------------------------------------- Snapshot
\* A new Cache whose size was never set.
SnapshotCacheNoSize == [store |-> store, size |-> 0]

\* Lines 125-127: the new Cache, with c's map and c's size.
SnapshotCache == [store |-> store, size |-> size]

\* c.store left as it is.
FreshStoreKept == store

\* Line 129: the map c.store is reset to.
FreshStore == EmptyMap

\* Cache.Snapshot: c.store and c.size go to a new Cache, which is appended
\* to c.flushingCaches; c gets a fresh map and size 0.  A Keys range that
\* began on the old map goes on over it.
Snapshot(p) ==
    LET snapshot == nsnap + 1
        ranging(q) == pc[q] = "Keys" /\ klive[q]
    IN  /\ pc[p] = "idle"
        /\ mu = 0
        /\ nsnap < MaxSnapshots
        /\ nsnap' = snapshot
        /\ snaps' = [i \in DOMAIN snaps \cup {snapshot} |->
                        IF i = snapshot THEN SnapshotCache ELSE snaps[i]]
        /\ store' = FreshStore
        /\ size' = 0
        /\ flushingCaches' = Append(flushingCaches, snapshot)
        /\ flushingCachesSize' =
              (flushingCachesSize + SnapshotCache.size) % Uint64Mod
        /\ klive' = [q \in Procs |-> IF ranging(q) THEN FALSE ELSE klive[q]]
        /\ kdom' = [q \in Procs |-> IF ranging(q) THEN DOMAIN store ELSE kdom[q]]
        /\ written' = NoWrites
        /\ ret' = Ret("Snapshot", FALSE, snapshot, <<>>, <<>>)
        /\ UNCHANGED <<mu, pc, writerVars, vkey, kstart, ka>>

\* ------------------------------------------------------ ClearSnapshot
\* The list filtered with the comparison turned round.
RemainingInverted(snapshot) ==
    SelectSeq(flushingCaches, LAMBDA c : c = snapshot)

\* Lines 144-152: the list without snapshot.
Remaining(snapshot) ==
    SelectSeq(flushingCaches, LAMBDA c : c # snapshot)

\* Lines 145-152: whether snapshot was met in the list.
Cleared(snapshot) ==
    \E i \in 1 .. Len(flushingCaches) : flushingCaches[i] = snapshot

\* Lines 156-159: the counters <<c.size, c.flushingCachesSize>> after the
\* update made when the snapshot was cleared.
ClearedSizes(snapshot) ==
    <<(size - snaps[snapshot].size) % Uint64Mod, flushingCachesSize>>

\* Cache.ClearSnapshot.  A snapshot dropped from the list is out of c's
\* reach, and of the model's.
ClearSnapshot(p, snapshot) ==
    /\ pc[p] = "idle"
    /\ mu = 0
    /\ flushingCaches' = Remaining(snapshot)
    /\ snaps' = [i \in SeqToSet(Remaining(snapshot)) |-> snaps[i]]
    /\ IF Cleared(snapshot)
       THEN /\ size' = ClearedSizes(snapshot)[1]
            /\ flushingCachesSize' = ClearedSizes(snapshot)[2]
       ELSE UNCHANGED <<size, flushingCachesSize>>
    /\ ret' = Ret("ClearSnapshot", FALSE, snapshot, <<>>, <<>>)
    /\ UNCHANGED <<store, nsnap, mu, pc, writerVars, vkey, keysVars, written>>

\* --------------------------------------------------------------- Size
\* What Size() returns: c.size + c.flushingCachesSize.
SizeOf == (size + flushingCachesSize) % Uint64Mod

\* Cache.Size
Size(p) ==
    /\ pc[p] = "idle"
    /\ mu = 0
    /\ ret' = Ret("Size", FALSE, SizeOf, <<>>, <<>>)
    /\ UNCHANGED <<cacheVars, mu, pc, writerVars, vkey, keysVars, written>>

\* --------------------------------------------------------------- Keys
\* Cache.Keys takes no lock.  Line 177: the range begins on the map c.store
\* holds now.
KeysBegin(p) ==
    /\ pc[p] = "idle"
    /\ pc' = [pc EXCEPT ![p] = "Keys"]
    /\ klive' = [klive EXCEPT ![p] = TRUE]
    /\ kstart' = [kstart EXCEPT ![p] = DOMAIN store]
    /\ ka' = [ka EXCEPT ![p] = <<>>]
    /\ ret' = NoRet
    /\ UNCHANGED <<cacheVars, mu, writerVars, vkey, kdom, written>>

\* The keys of the ranged map not produced yet.
KeysLeft(p) ==
    (IF klive[p] THEN DOMAIN store ELSE kdom[p]) \ SeqToSet(ka[p])

\* Lines 177-179: one iteration, a = append(a, k).  A key added to the map
\* while the range runs is produced or skipped.
KeysIter(p) ==
    /\ pc[p] = "Keys"
    /\ \E k \in KeysLeft(p) : ka' = [ka EXCEPT ![p] = Append(@, k)]
    /\ ret' = NoRet
    /\ UNCHANGED <<cacheVars, mu, pc, writerVars, vkey, klive, kdom, kstart,
                   written>>

\* Lines 180-181: the range is over once every key the map had at its
\* start was produced; sort and return.
KeysEnd(p) ==
    /\ pc[p] = "Keys"
    /\ kstart[p] \cap KeysLeft(p) = {}
    /\ pc' = [pc EXCEPT ![p] = "idle"]
    /\ ret' = Ret("Keys", FALSE, 0, <<>>, SortStrings(ka[p]))
    /\ klive' = [klive EXCEPT ![p] = FALSE]
    /\ kdom' = [kdom EXCEPT ![p] = {}]
    /\ kstart' = [kstart EXCEPT ![p] = {}]
    /\ ka' = [ka EXCEPT ![p] = <<>>]
    /\ UNCHANGED <<cacheVars, mu, writerVars, vkey, written>>

\* ------------------------------------------------------------- Values
\* Lines 186-199: under RLock, find the entry; return its values, or nil
\* with needSort.
ValuesRead(p, key) ==
    /\ pc[p] = "idle"
    /\ mu = 0
    /\ IF key \in DOMAIN store /\ store[key].needSort
       THEN /\ pc' = [pc EXCEPT ![p] = "Values"]
            /\ vkey' = [vkey EXCEPT ![p] = key]
            /\ ret' = NoRet
       ELSE /\ ret' = Ret("Values", FALSE, 0,
                          IF key \in DOMAIN store THEN store[key].values
                          ELSE <<>>, <<key>>)
            /\ UNCHANGED <<pc, vkey>>
    /\ UNCHANGED <<cacheVars, mu, writerVars, keysVars, written>>

\* The flag cleared, the values left as they were.
ResortedFlagOnly(e) == [e EXCEPT !.needSort = FALSE]

\* Lines 212-213: the entry after the sort under the write lock.
Resorted(e) == [e EXCEPT !.values = Deduplicate(e.values), !.needSort = FALSE]

\* c.mu left free by a call that goes on to sort.
ResortUnlocked(p) == 0

\* Line 205: the holder of c.mu once c.mu.Lock() has returned.
ResortLock(p) == p

\* Lines 203-205: the flag was seen set, the read lock is released; take
\* the write lock.
ValuesLock(p) ==
    /\ pc[p] = "Values"
    /\ mu = 0
    /\ mu' = ResortLock(p)
    /\ pc' = [pc EXCEPT ![p] = "Resort"]
    /\ ret' = NoRet
    /\ UNCHANGED <<cacheVars, writerVars, vkey, keysVars, written>>

\* The entry that held key when the flag was read is sorted where it is
\* by now: in c.store, or in the retired snapshot it has moved to.
ResortedSeen(key) ==
    [store |-> IF key \in DOMAIN store
               THEN [store EXCEPT ![key] = Resorted(@)]
               ELSE store,
     snaps |-> IF key \in DOMAIN store
               THEN snaps
               ELSE [i \in DOMAIN snaps |->
                        IF key \in DOMAIN snaps[i].store
                        THEN [snaps[i] EXCEPT !.store[key] = Resorted(@)]
                        ELSE snaps[i]]]

\* Lines 208-213: the entry is looked up again in c.store, and sorted if
\* it is there; c.store and the retired snapshots after that.
ResortedLive(key) ==
    [store |-> IF key \in DOMAIN store
               THEN [store EXCEPT ![key] = Resorted(@)]
               ELSE store,
     snaps |-> snaps]

\* Lines 208-216: under Lock, look the key up again, deduplicate its entry,
\* unlock and return the values (n = 1: returned by this function literal).
ValuesResort(p) ==
    LET key == vkey[p]
    IN  /\ pc[p] = "Resort"
        /\ store' = ResortedLive(key).store
        /\ snaps' = ResortedLive(key).snaps
        /\ ret' = Ret("Values", FALSE, 1,
                      IF key \in DOMAIN store
                      THEN Resorted(store[key]).values ELSE <<>>, <<key>>)
        /\ mu' = 0
        /\ pc' = [pc EXCEPT ![p] = "idle"]
        /\ vkey' = [vkey EXCEPT ![p] = KeyB]
        /\ UNCHANGED <<nsnap, flushingCaches, size, flushingCachesSize,
                       writerVars, keysVars, written>>

\* --------------------------------------------------------------- Next
Next ==
    \E p \in Procs :
        \/ \E key \in AllKeys, values \in Batches : WriteBegin(p, key, values)
        \/ \E batch \in MultiBatches : WriteMultiBegin(p, batch)
        \/ WriteApply(p)
        \/ WriteCommit(p)
        \/ Snapshot(p)
        \/ \E snapshot \in 0 .. nsnap : ClearSnapshot(p, snapshot)
        \/ Size(p)
        \/ KeysBegin(p)
        \/ KeysIter(p)
        \/ KeysEnd(p)
        \/ \E key \in AllKeys : ValuesRead(p, key)
        \/ ValuesLock(p)
        \/ ValuesResort(p)

Spec == Init /\ [][Next]_vars

\* ------------------------------------------------------------- claims
\* The step returned from a call of op.
Returned(op) == ret'.op = op

\* C1. Capacity invariant: in every reachable state the live size counter
\* plus the snapshot size counter is at most maxSize.
C1_CapacityInvariant == size + flushingCachesSize <= maxSize

\* C2. A Write or WriteMulti that returns the capacity-exceeded error leaves
\* the cache unchanged: the key mapping, every entry's samples and sort
\* flag, the live size counter, the retired-snapshot list with its
\* snapshots, and the snapshot size counter.
C2_RejectedWriteNoEffect ==
    [][(ret'.err /\ ret'.op \in {"Write", "WriteMulti"})
        => UNCHANGED <<store, size, flushingCaches, snaps, flushingCachesSize>>]_vars

\* A write was just rejected by a cache that holds live samples and a
\* retired snapshot.
C2_Witness ==
    /\ ret.err
    /\ ret.op \in {"Write", "WriteMulti"}
    /\ store # EmptyMap
    /\ flushingCaches # <<>>

\* C3. Admission rule: a Write or WriteMulti is rejected with
\* capacity-exceeded if and only if live size + submitted bytes + snapshot
\* size is strictly greater than maxSize; an accepted call appends the
\* samples to each key's entry (created if absent) and the live size grows
\* by exactly the submitted byte size.
C3_AdmissionRule ==
    [][\A p \in Procs :
        /\ \A key \in AllKeys, values \in Batches :
              WriteBegin(p, key, values)
                => (ret'.err <=>
                      size + ValuesSize(values) + flushingCachesSize > maxSize)
        /\ \A batch \in MultiBatches :
              WriteMultiBegin(p, batch)
                => (ret'.err <=>
                      size + TotalSize(batch) + flushingCachesSize > maxSize)
        /\ WriteCommit(p)
              => /\ size' = size + TotalSize(wbatch)
                 /\ \A k \in DOMAIN wbatch :
                       /\ k \in DOMAIN store
                       /\ Len(store[k].values) >= Len(wbatch[k])
                       /\ SubSeq(store[k].values,
                                 Len(store[k].values) - Len(wbatch[k]) + 1,
                                 Len(store[k].values)) = wbatch[k]]_vars

\* A WriteMulti is in progress and has written some of its keys, not all.
PartlyApplied ==
    /\ mu # 0
    /\ pc[mu] = "WriteMulti"
    /\ wleft # {}
    /\ wleft # DOMAIN wbatch

\* C4. Atomic multi-write: no Values, Size or Snapshot call runs against a
\* partly applied WriteMulti batch, and no Keys call returns a key set that
\* holds some but not all of the keys a WriteMulti in progress adds.
C4_AtomicMultiWrite ==
    [][/\ (Returned("Values") \/ Returned("Size") \/ Returned("Snapshot"))
            => ~PartlyApplied
       /\ \A p \in Procs :
            (KeysEnd(p) /\ klive[p] /\ mu # 0 /\ pc[mu] = "WriteMulti")
              => LET new == DOMAIN wbatch \ wbase
                     seen == SeqToSet(ka[p])
                 IN  seen \cap new = {} \/ new \subseteq seen]_vars

\* C5. Snapshot conservation: Snapshot() returns a Cache with the key set
\* and the size of the live store, the original then has no live key and
\* live size 0, the returned Cache is appended to the retired-snapshot
\* list, and Size() of the original is the same before and after.
C5_SnapshotConservation ==
    [][Returned("Snapshot")
        => LET snapshot == ret'.n
           IN  /\ snapshot \in DOMAIN snaps'
               /\ snapshot \notin DOMAIN snaps
               /\ DOMAIN snaps'[snapshot].store = DOMAIN store
               /\ snaps'[snapshot].size = size
               /\ DOMAIN store' = {}
               /\ size' = 0
               /\ flushingCaches' = Append(flushingCaches, snapshot)
               /\ SizeOf' = SizeOf]_vars

\* Snapshot just returned a Cache with both keys and a size above 0.
C5_Witness ==
    /\ ret.op = "Snapshot"
    /\ ret.n \in SeqToSet(flushingCaches)
    /\ DOMAIN snaps[ret.n].store = AllKeys
    /\ snaps[ret.n].size > 0

\* C6. Release effect: ClearSnapshot(s), with s in the retired-snapshot
\* list, removes s from the list and decreases the snapshot size counter
\* by the size recorded in s; the live size counter, the live key mapping
\* and every other retired snapshot stay as they are, and Size() drops by
\* exactly the recorded size.
C6_ReleaseEffect ==
    [][(Returned("ClearSnapshot") /\ ret'.n \in SeqToSet(flushingCaches))
        => LET s == ret'.n
           IN  /\ flushingCaches' = SelectSeq(flushingCaches, LAMBDA c : c # s)
               /\ flushingCachesSize' = flushingCachesSize - snaps[s].size
               /\ size' = size
               /\ store' = store
               /\ \A i \in DOMAIN snaps \ {s} :
                     i \in DOMAIN snaps' /\ snaps'[i] = snaps[i]
               /\ SizeOf' = SizeOf - snaps[s].size]_vars

\* C7. Release idempotence: ClearSnapshot with a snapshot already released,
\* or with a Cache that never was in the retired-snapshot list, changes
\* neither the live size counter, nor the snapshot size counter, nor the
\* retired-snapshot list, and returns no error.
C7_ReleaseIdempotent ==
    [][(Returned("ClearSnapshot") /\ ret'.n \notin SeqToSet(flushingCaches))
        => /\ UNCHANGED <<size, flushingCachesSize, flushingCaches, snaps>>
           /\ ~ret'.err]_vars

\* ClearSnapshot just returned for a Cache that is not in the list, while
\* the list holds a snapshot and both counters are above 0.
C7_Witness ==
    /\ ret.op = "ClearSnapshot"
    /\ ret.n = 0
    /\ flushingCaches # <<>>
    /\ flushingCachesSize > 0
    /\ size > 0

\* The bytes appended to the entries of the live store.
LiveBytes ==
    LET RECURSIVE Sum(_)
        Sum(K) == IF K = {} THEN 0
                  ELSE LET k == CHOOSE x \in K : TRUE
                       IN  store[k].size + Sum(K \ {k})
    IN  Sum(DOMAIN store)

\* C8. Snapshot bytes count against capacity until released, and releasing
\* frees them: whenever the live store is empty and every snapshot has been
\* released, Size() is 0 and a write of any size up to maxSize is accepted;
\* with every snapshot released, a write that fits beside the live bytes is
\* accepted.
C8_ReleaseFreesCapacity ==
    (mu = 0 /\ flushingCaches = <<>>)
      => /\ store = EmptyMap
            => /\ SizeOf = 0
               /\ \A sz \in 0 .. maxSize : ~Exceeded((size + sz) % Uint64Mod)
         /\ \A sz \in 0 .. maxSize :
               LiveBytes + sz <= maxSize => ~Exceeded((size + sz) % Uint64Mod)

\* The values are strictly increasing by timestamp.
StrictlyIncreasing(vals) ==
    \A i \in 1 .. Len(vals) - 1 : vals[i].t < vals[i + 1].t

\* C9. Read correctness: Values(key) returns a sequence strictly increasing
\* by timestamp that holds exactly one sample for each distinct timestamp
\* written to the key, the last one written at that timestamp.
C9_ReadCorrect ==
    ret.op = "Values"
      => LET key == ret.keys[1]
             vals == ret.vals
         IN  /\ StrictlyIncreasing(vals)
             /\ \A t \in TimeStamps :
                   IF written[key][t] = 0
                   THEN \A i \in 1 .. Len(vals) : vals[i].t # t
                   ELSE Cardinality({i \in 1 .. Len(vals) : vals[i].t = t}) = 1
             /\ \A i \in 1 .. Len(vals) : vals[i].v = written[key][vals[i].t]

\* How many times sample s is held for key k: in the live store and in the
\* retired snapshots.
CountIn(m, k, s) ==
    IF k \in DOMAIN m
    THEN Cardinality({i \in 1 .. Len(m[k].values) : m[k].values[i] = s})
    ELSE 0

RECURSIVE CountSnaps(_, _, _, _)
CountSnaps(sn, I, k, s) ==
    IF I = {} THEN 0
    ELSE LET i == CHOOSE x \in I : TRUE
         IN  CountIn(sn[i].store, k, s) + CountSnaps(sn, I \ {i}, k, s)

\* C10. Snapshot clean cut: a Snapshot moves every sample of the live store
\* into the returned snapshot and nowhere else: each accepted sample is
\* held once, in the live store or in one retired snapshot, before and
\* after; the earlier snapshots keep theirs; and the keys already written
\* by a Write or WriteMulti in progress are all in the live store, never
\* cut off into a snapshot.
C10_SnapshotCleanCut ==
    /\ [][Returned("Snapshot")
           => /\ \A k \in AllKeys, s \in Sample :
                    /\ CountIn(store', k, s) = 0
                    /\ CountSnaps(snaps', DOMAIN snaps', k, s)
                         = CountIn(store, k, s)
                              + CountSnaps(snaps, DOMAIN snaps, k, s)
              /\ snaps'[ret'.n].store = store
              /\ \A i \in DOMAIN snaps : snaps'[i] = snaps[i]]_vars
    /\ [](mu # 0 => (DOMAIN wbatch \ wleft) \subseteq DOMAIN store)

\* Snapshot just returned a second snapshot with samples, the first still
\* retired with samples of its own.
C10_Witness ==
    /\ ret.op = "Snapshot"
    /\ Len(flushingCaches) = 2
    /\ snaps[flushingCaches[2]].store # EmptyMap
    /\ snaps[flushingCaches[1]].store # EmptyMap

\* The strings of a are in ascending order, none twice.
Ascending(a) ==
    \A i \in 1 .. Len(a) - 1 : LexLess(a[i], a[i + 1])

\* C11. Keys() returns exactly the keys of the live mapping, each once, in
\* lexicographically ascending order; a key held only by a retired
\* snapshot is not returned, so what Keys() returns after Snapshot() and
\* before the next accepted write is empty.
C11_KeysLiveSorted ==
    [][Returned("Keys")
        => /\ SeqToSet(ret'.keys) = DOMAIN store'
           /\ Ascending(ret'.keys)]_vars

\* C12. add sets the entry's needSort whenever the appended batch, of two
\* values or more, is not strictly increasing by timestamp in itself, the
\* entry having held values before or not.
C12_AddFlagsBatchDisorder ==
    [][\A k \in wleft \ wleft' :
          (Len(wbatch[k]) >= 2 /\ ~StrictlyIncreasing(wbatch[k]))
            => store'[k].needSort]_vars

\* Every entry of the map m with needSort false holds values strictly
\* increasing by timestamp.
FlagFalseSorted(m) ==
    \A k \in DOMAIN m : ~m[k].needSort => StrictlyIncreasing(m[k].values)

\* C13. The disorder detector has no false negatives: in every reachable
\* state every entry with needSort false, in the live store or in a
\* retired snapshot, holds values strictly increasing by timestamp, no
\* timestamp twice.
C13_NoFalseNegatives ==
    /\ FlagFalseSorted(store)
    /\ \A i \in DOMAIN snaps : FlagFalseSorted(snaps[i].store)

\* The entry is in order and says so.
Clean(e) == ~e.needSort /\ StrictlyIncreasing(e.values)

\* C14. After a Values(key) call that sorts, the entry's needSort is false
\* and its values are strictly increasing by timestamp, no timestamp
\* twice; flag and values stay so until the next append to that key (a
\* Snapshot moves the entry as it is); a Values call that finds the flag
\* false changes nothing in the cache.
C14_ResortLeavesSorted ==
    [][/\ (Returned("Values") /\ ret'.n = 1 /\ ret'.keys[1] \in DOMAIN store)
            => /\ ret'.keys[1] \in DOMAIN store'
               /\ Clean(store'[ret'.keys[1]])
       /\ \A k \in DOMAIN store :
            (Clean(store[k]) /\ k \notin wleft \ wleft')
              => IF Returned("Snapshot")
                 THEN snaps'[ret'.n].store[k] = store[k]
                 ELSE k \in DOMAIN store' /\ store'[k] = store[k]
       /\ (Returned("Values") /\ ret'.n = 0) => UNCHANGED cacheVars]_vars

\* Values just returned from a sort that dropped a value of the entry.
C14_Witness ==
    /\ ret.op = "Values"
    /\ ret.n = 1
    /\ ret.keys[1] \in DOMAIN store
    /\ ~store[ret.keys[1]].needSort
    /\ ret.vals = store[ret.keys[1]].values
    /\ store[ret.keys[1]].size > ValuesSize(store[ret.keys[1]].values)

\* C15. Keys() holds c.mu, shared at least, for as long as it ranges over
\* the key mapping: no Keys range is running while a Write or WriteMulti
\* holds the lock exclusively to change the mapping, and no Snapshot
\* replaces the mapping while a Keys range is running.
C15_KeysHoldsLock ==
    /\ [](\A p \in Procs : pc[p] = "Keys" => mu = 0)
    /\ [][Returned("Snapshot") => \A p \in Procs : pc[p] # "Keys"]_vars

\* C16. Ownership transfer: once Snapshot() has moved an entry into a
\* snapshot, no call on the live cache changes the entry's values or
\* needSort, in any interleaving; a Values(key) call that saw needSort set
\* under the read lock and takes the write lock after a Snapshot does not
\* sort the entry of the snapshot, and returns no values if the key is not
\* in the live mapping any more.
C16_OwnershipTransfer ==
    [][/\ \A i \in DOMAIN snaps \cap DOMAIN snaps' : snaps'[i] = snaps[i]
       /\ \A p \in Procs :
            (pc[p] = "Resort" /\ pc'[p] = "idle" /\ vkey[p] \notin DOMAIN store)
              => /\ ret'.op = "Values"
                 /\ ret'.vals = <<>>
                 /\ UNCHANGED cacheVars]_vars

\* Values just returned nothing from under the write lock: the entry it
\* saw unsorted is in a retired snapshot, unsorted as it was, and the live
\* mapping has no such key.
C16_Witness ==
    /\ ret.op = "Values"
    /\ ret.n = 1
    /\ ret.vals = <<>>
    /\ ret.keys[1] \notin DOMAIN store
    /\ \E i \in DOMAIN snaps :
          /\ ret.keys[1] \in DOMAIN snaps[i].store
          /\ snaps[i].store[ret.keys[1]].needSort

\* Goroutine p is sorting an entry: between c.mu.Lock() and the unlock of
\* the function literal of lines 204-216.
Resorting(p) == pc[p] = "Resort"

\* C17. Resort mutual exclusion: in any interleaving of Values, Write and
\* WriteMulti calls no two goroutines sort an entry at the same time, no
\* append runs while an entry is being sorted, and no reader reads the
\* values or the flag of an entry while a sort is in progress.
C17_ResortExclusive ==
    /\ [](\A p \in Procs :
            Resorting(p)
              => /\ mu = p
                 /\ \A q \in Procs \ {p} :
                       pc[q] \notin {"Resort", "Write", "WriteMulti"})
    /\ [][(\E p \in Procs : Resorting(p))
            => /\ store' = store \/ \E p \in Procs : Resorting(p) /\ ~Resorting(p)'
               /\ \A q \in Procs : ~(pc[q] = "idle" /\ pc'[q] = "Values")
               /\ ~(Returned("Values") /\ ret'.n = 0)]_vars

\* A sort is in progress on an entry with a timestamp twice, the other
\* goroutine waiting for the lock to sort as well.
C17_Witness ==
    \E p \in Procs :
        /\ Resorting(p)
        /\ vkey[p] \in DOMAIN store
        /\ store[vkey[p]].needSort
        /\ ~StrictlyIncreasing(store[vkey[p]].values)
        /\ \E q \in Procs \ {p} : pc[q] = "Values" /\ vkey[q] = vkey[p]

\* C18. Live accounting invariant: between calls of Write, WriteMulti,
\* Snapshot and ClearSnapshot, the live size counter is the sum of the
\* byte sizes of all values appended to the entries of the live mapping,
\* and 0 when the live mapping is empty.
C18_LiveAccounting ==
    mu = 0 => size = LiveBytes

RECURSIVE SnapshotBytes(_)
\* The sizes recorded in the Caches of the list l, summed.
SnapshotBytes(l) ==
    IF l = <<>> THEN 0 ELSE snaps[Head(l)].size + SnapshotBytes(Tail(l))

\* C19. Snapshot accounting invariant: in every reachable state the
\* snapshot size counter is the sum of the sizes recorded in the Caches of
\* the retired-snapshot list, and 0 when the list is empty.
C19_SnapshotAccounting ==
    flushingCachesSize = SnapshotBytes(flushingCaches)

\* C20. No accounting underflow: no subtraction takes the live size counter
\* or the snapshot size counter below zero; ClearSnapshot subtracts the
\* size of a snapshot from a counter that is at least as large.
C20_NoUnderflow ==
    [][(Returned("ClearSnapshot") /\ Cleared(ret'.n))
        => /\ size' # size => size >= snaps[ret'.n].size
           /\ flushingCachesSize' # flushingCachesSize
                => flushingCachesSize >= snaps[ret'.n].size]_vars

====
